---- MODULE Spec2Model ----
(***************************************************************************)
(* A model of DCAN/network.py: the assembly of the DCCANet and             *)
(* AttentionResNet networks (_make_layer), Bottleneck.forward,             *)
(* DCCAModule.forward, initialize_pretrained_model and the pretrained      *)
(* weight transplant of dcca_resnet50 / dcca_resnet101.                    *)
(*                                                                         *)
(* Tensors are symbolic: a parameter tensor is a storage cell whose value  *)
(* names where the numbers came from, an activation is the list of the     *)
(* operations applied to it.  State dictionaries map keys to storage       *)
(* cells, as torch's state_dict() does (its entries share the storage of   *)
(* the parameters).                                                        *)
(***************************************************************************)
EXTENDS Integers, Sequences, FiniteSets, TLC

VARIABLES
    \* ---- network assembly (DCCANet.__init__ / AttentionResNet.__init__)
    cfg,            \* the constructor's arguments
    self_inplanes,  \* self.inplanes
    net,            \* the stages built so far: net[k] is self.layer{k}
    layer0,         \* the stem (self.layer0), as its list of (name, conv/bn/..)
    extras,         \* the modules registered after layer4
    pc_net,         \* position in __init__
    \* ---- Bottleneck.forward
    blk,            \* the block whose forward runs
    tensors,        \* tensor storage: cell -> symbolic activation
    x_ref, out_ref, residual_ref,   \* the locals x, out, residual (cells)
    pc_fwd,         \* position in Bottleneck.forward
    \* ---- DCCAModule.forward
    training,       \* self.training
    params,         \* the parameters of fc0, fc1 and fc2
    module_input,   \* the batch given to forward: one entry per sample
    xs,             \* the local x: one row per sample
    src, trg,       \* the locals src and trg
    used,           \* history: the branch that produced each row of x
    result,         \* the returned tensor
    pc_mod,         \* position in DCCAModule.forward
    \* ---- AttentionModule.forward (the donor's attention module)
    donor_result,   \* the tensor the donor's forward returned
    pc_att,         \* position of the donor's forward
    \* ---- the factories and the weight transplant
    entry,          \* the factory called and its arguments
    store,          \* parameter storage: cell -> symbolic value
    attrs,          \* input_space, ..., std of the donor model
    pretrained_dict,    \* the local pretrained_dict: key -> cell
    model_dict,     \* the local model_dict: key -> cell
    loop_i, loop_j, \* the loop variables i and j
    load_pos,       \* load_state_dict: the next child module to load
    report,         \* load_state_dict: missing and unexpected keys
    pc_tr           \* position in the factory

netVars == <<cfg, self_inplanes, net, layer0, extras, pc_net>>
fwdVars == <<blk, tensors, x_ref, out_ref, residual_ref, pc_fwd>>
modVars == <<training, params, module_input, xs, src, trg, used, result, pc_mod>>
trVars == <<entry, store, attrs, pretrained_dict, model_dict, loop_i, loop_j,
            load_pos, report, pc_tr>>
attVars == <<donor_result, pc_att>>
vars == <<netVars, fwdVars, modVars, trVars, attVars>>

(***************************************************************************)
(* Bounds of the model.                                                    *)
(***************************************************************************)
MaxBlocks == 2          \* per-stage block counts are drawn from 0..MaxBlocks
MaxBatch == 3           \* batch sizes are drawn from 0..MaxBatch

InplanesSet == {64, 128, 256}   \* values of the `inplanes` argument
SampleSet == {"a", "b"}         \* the samples a batch is made of
ParamValues == {1, 2}           \* the values a parameter tensor may hold
KernelPadSet == {<<1, 0>>, <<3, 1>>}  \* (downsample_kernel_size, downsample_padding)

(***************************************************************************)
(* Program constants.                                                      *)
(***************************************************************************)
expansion == 4                          \* block.expansion
StagePlanes == <<64, 128, 256, 512>>    \* planes= of layer1..layer4
StageStride == <<1, 2, 2, 2>>           \* stride= of layer1..layer4
                                        \* (layer1 takes _make_layer's default)
StageKernelPad(c, k) ==
    \* layer1 is always given downsample_kernel_size=1, downsample_padding=0
    IF k = 1 THEN <<1, 0>> ELSE <<c.downsample_kernel_size, c.downsample_padding>>

(***************************************************************************)
(* torch.nn building blocks, as the records of their hyper-parameters.     *)
(***************************************************************************)
Conv2d(cin, cout, kernel_size, stride, padding, groups, bias) ==
    [kind |-> "Conv2d", cin |-> cin, cout |-> cout, kernel_size |-> kernel_size,
     stride |-> stride, padding |-> padding, groups |-> groups, bias |-> bias]

BatchNorm2d(c) ==
    [kind |-> "BatchNorm2d", cin |-> c, cout |-> c, kernel_size |-> 0,
     stride |-> 1, padding |-> 0, groups |-> 1, bias |-> TRUE]

Other(kind, kernel_size, stride) ==
    [kind |-> kind, cin |-> 0, cout |-> 0, kernel_size |-> kernel_size,
     stride |-> stride, padding |-> 0, groups |-> 1, bias |-> FALSE]

None == <<>>    \* an absent module; a present one is a non-empty sequence

\* nn.Sequential(Conv2d(...), BatchNorm2d(...)) of _make_layer
Downsample(inplanes, planes, kernel_size, stride, padding) ==
    << Conv2d(inplanes, planes * expansion, kernel_size, stride, padding, 1, FALSE),
       BatchNorm2d(planes * expansion) >>

\* DCCAModule.__init__ / AttentionModule.__init__: the names of the
\* point-wise convolutions of the attention module
SeBranches(cls) ==
    IF cls = "DCCANet" THEN <<"fc0", "fc1">> ELSE <<"fc1">>

SeModule(cls, channels, reduction) ==
    [kind |-> IF cls = "DCCANet" THEN "DCCAModule" ELSE "AttentionModule",
     branches |-> SeBranches(cls),
     fc_in |-> Conv2d(channels, channels \div reduction, 1, 1, 0, 1, TRUE),
     fc2 |-> Conv2d(channels \div reduction, channels, 1, 1, 0, 1, TRUE)]

\* mutant: the torchvision placement of the stride (in conv2, not conv1)
BottleneckBlockStrideInConv2(cls, inplanes, planes, groups, reduction, stride, downsample) ==
    [conv1 |-> Conv2d(inplanes, planes, 1, 1, 0, 1, FALSE),
     bn1 |-> BatchNorm2d(planes),
     conv2 |-> Conv2d(planes, planes, 3, stride, 1, groups, FALSE),
     bn2 |-> BatchNorm2d(planes),
     conv3 |-> Conv2d(planes, planes * 4, 1, 1, 0, 1, FALSE),
     bn3 |-> BatchNorm2d(planes * 4),
     se_module |-> SeModule(cls, planes * 4, reduction),
     downsample |-> downsample,
     stride |-> stride]

\* DCCAResNetBottleneck.__init__ / AttentionResNetBottleneck.__init__
BottleneckBlock(cls, inplanes, planes, groups, reduction, stride, downsample) ==
    [conv1 |-> Conv2d(inplanes, planes, 1, stride, 0, 1, FALSE),
     bn1 |-> BatchNorm2d(planes),
     conv2 |-> Conv2d(planes, planes, 3, 1, 1, groups, FALSE),
     bn2 |-> BatchNorm2d(planes),
     conv3 |-> Conv2d(planes, planes * 4, 1, 1, 0, 1, FALSE),
     bn3 |-> BatchNorm2d(planes * 4),
     se_module |-> SeModule(cls, planes * 4, reduction),
     downsample |-> downsample,
     stride |-> stride]

\* mutant: the loop of later blocks starts at 0 instead of 1
MakeLayerExtraBlock(cls, inplanes, planes, blocks, groups, reduction, stride, kernel_size, padding) ==
    LET downsample ==
            IF stride # 1 \/ inplanes # planes * expansion
            THEN Downsample(inplanes, planes, kernel_size, stride, padding)
            ELSE None
        first == BottleneckBlock(cls, inplanes, planes, groups, reduction,
                                 stride, downsample)
        later == [i \in 1..blocks |->
                    BottleneckBlock(cls, planes * expansion, planes, groups,
                                    reduction, 1, None)]
    IN  [layer |-> <<first>> \o later, inplanes |-> planes * expansion]

\* mutant: the later blocks are built before self.inplanes is updated
MakeLayerStaleInplanes(cls, inplanes, planes, blocks, groups, reduction, stride, kernel_size, padding) ==
    LET downsample ==
            IF stride # 1 \/ inplanes # planes * expansion
            THEN Downsample(inplanes, planes, kernel_size, stride, padding)
            ELSE None
        first == BottleneckBlock(cls, inplanes, planes, groups, reduction,
                                 stride, downsample)
        later == [i \in 1..(blocks - 1) |->
                    BottleneckBlock(cls, inplanes, planes, groups,
                                    reduction, 1, None)]
    IN  [layer |-> <<first>> \o later, inplanes |-> planes * expansion]

\* _make_layer: the stage (a list of blocks) and the new value of
\* self.inplanes.  range(1, blocks) is empty when blocks <= 1.
MakeLayer(cls, inplanes, planes, blocks, groups, reduction, stride, kernel_size, padding) ==
    LET downsample ==
            IF stride # 1 \/ inplanes # planes * expansion
            THEN Downsample(inplanes, planes, kernel_size, stride, padding)
            ELSE None
        first == BottleneckBlock(cls, inplanes, planes, groups, reduction,
                                 stride, downsample)
        later == [i \in 1..(blocks - 1) |->
                    BottleneckBlock(cls, planes * expansion, planes, groups,
                                    reduction, 1, None)]
    IN  [layer |-> <<first>> \o later, inplanes |-> planes * expansion]

\* layer0_modules of __init__, with the trailing MaxPool2d
Layer0Modules(input_3x3, inplanes) ==
    (IF input_3x3
     THEN << Conv2d(3, 64, 3, 2, 1, 1, FALSE), BatchNorm2d(64), Other("ReLU", 0, 1),
             Conv2d(64, 64, 3, 1, 1, 1, FALSE), BatchNorm2d(64), Other("ReLU", 0, 1),
             Conv2d(64, inplanes, 3, 1, 1, 1, FALSE), BatchNorm2d(inplanes),
             Other("ReLU", 0, 1) >>
     ELSE << Conv2d(3, inplanes, 7, 2, 3, 1, FALSE), BatchNorm2d(inplanes),
             Other("ReLU", 0, 1) >>)
    \o << Other("MaxPool2d", 3, 2) >>

\* the call self._make_layer(...) that builds self.layer{k}, given the
\* current self.inplanes
StageOf(c, inplanes, k) ==
    MakeLayer(c.cls, inplanes, StagePlanes[k], c.layers[k], c.groups, c.reduction,
              StageStride[k], StageKernelPad(c, k)[1], StageKernelPad(c, k)[2])

\* the modules registered after layer4, in order (self.dropout is None in
\* every factory and registers nothing)
TailModules(cls) ==
    IF cls = "DCCANet" THEN <<"avg_pool", "feature">>
                       ELSE <<"avg_pool", "last_linear">>

(***************************************************************************)
(* The constructors DCCANet.__init__ and AttentionResNet.__init__, one     *)
(* action per statement that builds a module.                              *)
(***************************************************************************)
Configs ==
    [cls : {"DCCANet", "AttentionResNet"},
     layers : [1..4 -> 0..MaxBlocks],
     groups : {1},
     reduction : {16},
     inplanes : InplanesSet,
     input_3x3 : BOOLEAN,
     downsample_kernel_size : {1, 3},
     downsample_padding : {0, 1}]

InitNet ==
    /\ cfg \in {c \in Configs :
                  <<c.downsample_kernel_size, c.downsample_padding>> \in KernelPadSet}
    /\ self_inplanes = cfg.inplanes
    /\ net = <<>>
    /\ layer0 = <<>>
    /\ extras = <<>>
    /\ pc_net = "layer0"

\* self.layer0 = nn.Sequential(OrderedDict(layer0_modules))
BuildLayer0 ==
    /\ pc_net = "layer0"
    /\ layer0' = Layer0Modules(cfg.input_3x3, cfg.inplanes)
    /\ pc_net' = "layers"
    /\ UNCHANGED <<cfg, self_inplanes, net, extras>>

\* self.layer{k} = self._make_layer(block, planes=..., blocks=layers[k-1], ...)
BuildLayer ==
    /\ pc_net = "layers"
    /\ Len(net) < 4
    /\ LET made == StageOf(cfg, self_inplanes, Len(net) + 1)
       IN  /\ net' = Append(net, made.layer)
           /\ self_inplanes' = made.inplanes
    /\ pc_net' = IF Len(net) = 3 THEN "tail" ELSE "layers"
    /\ UNCHANGED <<cfg, layer0, extras>>

\* avg_pool, dropout (None in every factory), then `feature` (DCCANet) or
\* `last_linear` (AttentionResNet)
BuildTail ==
    /\ pc_net = "tail"
    /\ extras' = TailModules(cfg.cls)
    /\ pc_net' = "built"
    /\ UNCHANGED <<cfg, self_inplanes, net, layer0>>

NextNet ==
    \/ BuildLayer0 /\ UNCHANGED <<fwdVars, modVars, trVars, attVars>>
    \/ BuildLayer /\ UNCHANGED <<fwdVars, modVars, trVars, attVars>>
    \/ BuildTail /\ UNCHANGED <<fwdVars, modVars, trVars, attVars>>

(***************************************************************************)
(* Bottleneck.forward.  An activation is a record: `main` lists what was   *)
(* applied along the main path, `shortcut` what the second operand of the  *)
(* residual addition had been through, `post` what was applied after the   *)
(* addition, `ch` is its channel count.  Modules return a new tensor (a    *)
(* new cell); nn.ReLU(inplace=True) rewrites the cell it is given.         *)
(***************************************************************************)
Activation(main, ch) ==
    [main |-> main, shortcut |-> <<>>, post |-> <<>>, added |-> FALSE, ch |-> ch]

ApplyOp(t, name, ch) ==
    IF t.added
    THEN [t EXCEPT !.post = Append(@, name), !.ch = ch]
    ELSE [t EXCEPT !.main = Append(@, name), !.ch = ch]

\* out + residual
AddTensors(t, r) ==
    [main |-> t.main, shortcut |-> r.main, post |-> <<>>, added |-> TRUE, ch |-> t.ch]

\* the blocks _make_layer can build (first and later blocks of every stage)
BlockSet ==
    UNION { { MakeLayer(cls, inpl, StagePlanes[k], 2, 1, 16, StageStride[k], 1, 0).layer[j]
              : j \in 1..2 }
            : <<cls, inpl, k>> \in {"DCCANet", "AttentionResNet"} \X InplanesSet \X (1..4) }

InitFwd ==
    /\ blk \in BlockSet
    /\ tensors = << Activation(<<"x">>, blk.conv1.cin) >>
    /\ x_ref = 1
    /\ out_ref = 0
    /\ residual_ref = 0
    /\ pc_fwd = "residual"

\* residual = x
FwdResidual ==
    /\ pc_fwd = "residual"
    /\ residual_ref' = x_ref
    /\ pc_fwd' = "conv1"
    /\ UNCHANGED <<blk, tensors, x_ref, out_ref>>

\* out = self.<m>(<src>): a convolution or batch norm writes a new tensor;
\* a channel mismatch raises
FwdModule(here, m, from, next) ==
    /\ pc_fwd = here
    /\ IF tensors[from].ch = blk[m].cin
       THEN /\ tensors' = Append(tensors, ApplyOp(tensors[from], m, blk[m].cout))
            /\ out_ref' = Len(tensors) + 1
            /\ pc_fwd' = next
       ELSE /\ pc_fwd' = "RuntimeError"
            /\ UNCHANGED <<tensors, out_ref>>
    /\ UNCHANGED <<blk, x_ref, residual_ref>>

\* out = self.relu(out), in place
FwdRelu(here, next) ==
    /\ pc_fwd = here
    /\ tensors' = [tensors EXCEPT ![out_ref] = ApplyOp(@, "relu", @.ch)]
    /\ pc_fwd' = next
    /\ UNCHANGED <<blk, x_ref, out_ref, residual_ref>>

\* if self.downsample is not None: residual = self.downsample(x)
FwdDownsample ==
    /\ pc_fwd = "downsample"
    /\ IF blk.downsample # None
       THEN IF tensors[x_ref].ch = blk.downsample[1].cin
            THEN /\ tensors' = Append(tensors,
                        ApplyOp(tensors[x_ref], "downsample", blk.downsample[2].cout))
                 /\ residual_ref' = Len(tensors) + 1
                 /\ pc_fwd' = "se_add"
            ELSE /\ pc_fwd' = "RuntimeError"
                 /\ UNCHANGED <<tensors, residual_ref>>
       ELSE /\ pc_fwd' = "se_add"
            /\ UNCHANGED <<tensors, residual_ref>>
    /\ UNCHANGED <<blk, x_ref, out_ref>>

\* mutant: the attention module gates the sum, not the main path
FwdSeAddGateAfter ==
    /\ pc_fwd = "se_add"
    /\ IF tensors[out_ref].ch = tensors[residual_ref].ch
       THEN /\ tensors' = tensors \o
                << AddTensors(tensors[out_ref], tensors[residual_ref]),
                   ApplyOp(AddTensors(tensors[out_ref], tensors[residual_ref]),
                           "se_module", tensors[out_ref].ch) >>
            /\ out_ref' = Len(tensors) + 2
            /\ pc_fwd' = "relu3"
       ELSE /\ pc_fwd' = "RuntimeError"
            /\ UNCHANGED <<tensors, out_ref>>
    /\ UNCHANGED <<blk, x_ref, residual_ref>>

\* out = self.se_module(out) + residual
FwdSeAdd ==
    /\ pc_fwd = "se_add"
    /\ IF /\ tensors[out_ref].ch = blk.se_module.fc_in.cin
          /\ blk.se_module.fc2.cout = tensors[residual_ref].ch
       THEN /\ tensors' = tensors \o
                << ApplyOp(tensors[out_ref], "se_module", blk.se_module.fc2.cout),
                   AddTensors(ApplyOp(tensors[out_ref], "se_module",
                                      blk.se_module.fc2.cout),
                              tensors[residual_ref]) >>
            /\ out_ref' = Len(tensors) + 2
            /\ pc_fwd' = "relu3"
       ELSE /\ pc_fwd' = "RuntimeError"
            /\ UNCHANGED <<tensors, out_ref>>
    /\ UNCHANGED <<blk, x_ref, residual_ref>>

\* return out
FwdReturn ==
    /\ pc_fwd = "return"
    /\ pc_fwd' = "done"
    /\ UNCHANGED <<blk, tensors, x_ref, out_ref, residual_ref>>

NextFwd ==
    \/ FwdResidual /\ UNCHANGED <<netVars, modVars, trVars, attVars>>
    \/ FwdModule("conv1", "conv1", x_ref, "bn1") /\ UNCHANGED <<netVars, modVars, trVars, attVars>>
    \/ FwdModule("bn1", "bn1", out_ref, "relu1") /\ UNCHANGED <<netVars, modVars, trVars, attVars>>
    \/ FwdRelu("relu1", "conv2") /\ UNCHANGED <<netVars, modVars, trVars, attVars>>
    \/ FwdModule("conv2", "conv2", out_ref, "bn2") /\ UNCHANGED <<netVars, modVars, trVars, attVars>>
    \/ FwdModule("bn2", "bn2", out_ref, "relu2") /\ UNCHANGED <<netVars, modVars, trVars, attVars>>
    \/ FwdRelu("relu2", "conv3") /\ UNCHANGED <<netVars, modVars, trVars, attVars>>
    \/ FwdModule("conv3", "conv3", out_ref, "bn3") /\ UNCHANGED <<netVars, modVars, trVars, attVars>>
    \/ FwdModule("bn3", "bn3", out_ref, "downsample") /\ UNCHANGED <<netVars, modVars, trVars, attVars>>
    \/ FwdDownsample /\ UNCHANGED <<netVars, modVars, trVars, attVars>>
    \/ FwdSeAdd /\ UNCHANGED <<netVars, modVars, trVars, attVars>>
    \/ FwdRelu("relu3", "return") /\ UNCHANGED <<netVars, modVars, trVars, attVars>>
    \/ FwdReturn /\ UNCHANGED <<netVars, modVars, trVars, attVars>>

(***************************************************************************)
(* DCCAModule.forward.  A row of x is the sample it was computed from and  *)
(* the operations applied to it, each with the value of the parameter it   *)
(* used (0 for an operation without parameters).                           *)
(***************************************************************************)
Row(s) == [s |-> s, ops |-> <<>>]

Op(rows, name, p) ==
    [i \in 1..Len(rows) |-> [rows[i] EXCEPT !.ops = Append(@, <<name, p>>)]]

\* mutant: the split point rounds up
HalfCeil(n) == (n + 1) \div 2

\* int(x.size(0) / 2): true division, then truncation towards zero
Half(n) == n \div 2

\* x[:h] and x[h:] for 0 <= h <= len(x)
SliceTo(rows, h) == SubSeq(rows, 1, h)
SliceFrom(rows, h) == SubSeq(rows, h + 1, Len(rows))

Batches == UNION { [1..n -> SampleSet] : n \in 0..MaxBatch }

InitAtt ==
    /\ donor_result = <<>>
    /\ pc_att = "call"

InitMod ==
    /\ training \in BOOLEAN
    /\ params \in [fc0 : ParamValues, fc1 : ParamValues, fc2 : ParamValues]
    /\ module_input \in Batches
    /\ xs = <<>>
    /\ src = <<>>
    /\ trg = <<>>
    /\ used = <<>>
    /\ result = <<>>
    /\ pc_mod = "avg_pool"

\* module_input = x; x = self.avg_pool(x)
ModAvgPool ==
    /\ pc_mod = "avg_pool"
    /\ xs' = Op([i \in 1..Len(module_input) |-> Row(module_input[i])], "avg_pool", 0)
    /\ pc_mod' = IF training THEN "src" ELSE "eval"
    /\ UNCHANGED <<training, params, module_input, src, trg, used, result>>

\* src = self.fc0(x[:int(x.size(0) / 2), ])
ModSrc ==
    /\ pc_mod = "src"
    /\ src' = Op(SliceTo(xs, Half(Len(xs))), "conv", params.fc0)
    /\ used' = [i \in 1..Half(Len(xs)) |-> "fc0"]
    /\ pc_mod' = "trg"
    /\ UNCHANGED <<training, params, module_input, xs, trg, result>>

\* trg = self.fc1(x[int(x.size(0) / 2):, ])
ModTrg ==
    /\ pc_mod = "trg"
    /\ trg' = Op(SliceFrom(xs, Half(Len(xs))), "conv", params.fc1)
    /\ used' = used \o [i \in 1..(Len(xs) - Half(Len(xs))) |-> "fc1"]
    /\ pc_mod' = "cat"
    /\ UNCHANGED <<training, params, module_input, xs, src, result>>

\* mutant: the halves are concatenated in the wrong order
ModCatSwapped ==
    /\ pc_mod = "cat"
    /\ xs' = trg \o src
    /\ pc_mod' = "relu"
    /\ UNCHANGED <<training, params, module_input, src, trg, used, result>>

\* x = torch.cat((src, trg), 0)
ModCat ==
    /\ pc_mod = "cat"
    /\ xs' = src \o trg
    /\ pc_mod' = "relu"
    /\ UNCHANGED <<training, params, module_input, src, trg, used, result>>

\* else: x = self.fc1(x)
ModEval ==
    /\ pc_mod = "eval"
    /\ xs' = Op(xs, "conv", params.fc1)
    /\ used' = [i \in 1..Len(xs) |-> "fc1"]
    /\ pc_mod' = "relu"
    /\ UNCHANGED <<training, params, module_input, src, trg, result>>

\* x = self.relu(x); x = self.fc2(x); x = self.sigmoid(x)
ModGate(here, name, p, next) ==
    /\ pc_mod = here
    /\ xs' = Op(xs, name, p)
    /\ pc_mod' = next
    /\ UNCHANGED <<training, params, module_input, src, trg, used, result>>

\* return module_input * x: row i of the input scaled by row i of the gate;
\* the batch dimensions must agree
ModReturn ==
    /\ pc_mod = "return"
    /\ IF Len(xs) = Len(module_input)
       THEN /\ result' = [i \in 1..Len(xs) |->
                            [input |-> module_input[i], gate |-> xs[i]]]
            /\ pc_mod' = "done"
       ELSE /\ pc_mod' = "RuntimeError"
            /\ UNCHANGED result
    /\ UNCHANGED <<training, params, module_input, xs, src, trg, used>>

\* AttentionModule.forward: avg_pool, fc1, relu, fc2, sigmoid, then
\* module_input * x
AttentionForward(p, input) ==
    LET x0 == [i \in 1..Len(input) |-> Row(input[i])]
        x1 == Op(x0, "avg_pool", 0)
        x2 == Op(x1, "conv", p.fc1)
        x3 == Op(x2, "relu", 0)
        x4 == Op(x3, "conv", p.fc2)
        x5 == Op(x4, "sigmoid", 0)
    IN  [i \in 1..Len(input) |-> [input |-> input[i], gate |-> x5[i]]]

\* the donor's attention module, holding the parameters fc1 and fc2 of the
\* DCCAModule, is run on the same batch
AttForward ==
    /\ pc_att = "call"
    /\ donor_result' = AttentionForward(params, module_input)
    /\ pc_att' = "done"

NextMod ==
    \/ AttForward /\ UNCHANGED <<netVars, fwdVars, trVars, modVars>>
    \/ ModAvgPool /\ UNCHANGED <<netVars, fwdVars, trVars, attVars>>
    \/ ModSrc /\ UNCHANGED <<netVars, fwdVars, trVars, attVars>>
    \/ ModTrg /\ UNCHANGED <<netVars, fwdVars, trVars, attVars>>
    \/ ModCat /\ UNCHANGED <<netVars, fwdVars, trVars, attVars>>
    \/ ModEval /\ UNCHANGED <<netVars, fwdVars, trVars, attVars>>
    \/ ModGate("relu", "relu", 0, "fc2") /\ UNCHANGED <<netVars, fwdVars, trVars, attVars>>
    \/ ModGate("fc2", "conv", params.fc2, "sigmoid") /\ UNCHANGED <<netVars, fwdVars, trVars, attVars>>
    \/ ModGate("sigmoid", "sigmoid", 0, "return") /\ UNCHANGED <<netVars, fwdVars, trVars, attVars>>
    \/ ModReturn /\ UNCHANGED <<netVars, fwdVars, trVars, attVars>>

(***************************************************************************)
(* State dictionaries.  A key "layer3.0.se_module.fc1.weight" is the tuple *)
(* <<"layer", 3, 0, "se_module", "fc1", "weight">>; the keys of layer0 and *)
(* last_linear have no block index (-1).  A parameter tensor is a storage  *)
(* cell; state_dict() maps every key to the cell of its parameter, and     *)
(* load_state_dict copies cell contents (param.copy_(input_param)).        *)
(***************************************************************************)
Range(f) == {f[i] : i \in DOMAIN f}

\* the networks the factories build
FactoryCfg(cls, layers) ==
    [cls |-> cls, layers |-> layers, groups |-> 1, reduction |-> 16,
     inplanes |-> 64, input_3x3 |-> FALSE,
     downsample_kernel_size |-> 1, downsample_padding |-> 0]

\* dcca_resnet50 / dcca_resnet101: the `layers` argument of DCCANet(...)
ModelLayers(fn) ==
    IF fn = "dcca_resnet50" THEN <<3, 4, 6, 3>> ELSE <<3, 4, 23, 3>>

\* attention_resnet50 / attention_resnet101: the `layers` argument
DonorLayers(donor) ==
    IF donor = "attention_resnet50" THEN <<3, 4, 6, 3>> ELSE <<3, 4, 23, 3>>

\* mutant: dcca_resnet101 keeps the list of dcca_resnet50
LoopLayersOf50(fn) == <<3, 4, 6, 3>>

\* dcca_resnet50 / dcca_resnet101: the local list `layer`
LoopLayers(fn) ==
    IF fn = "dcca_resnet50" THEN <<3, 4, 6, 3>> ELSE <<3, 4, 23, 3>>

\* the donor factory each factory calls (itself, for a donor factory)
DonorOf(fn) ==
    CASE fn = "dcca_resnet50" -> "attention_resnet50"
      [] fn = "dcca_resnet101" -> "attention_resnet101"
      [] OTHER -> fn

IsTransplant(fn) == fn \in {"dcca_resnet50", "dcca_resnet101"}

RECURSIVE Stages(_, _, _)
\* layer{k}..layer4 of a constructed network
Stages(c, inplanes, k) ==
    IF k > 4 THEN <<>>
    ELSE <<StageOf(c, inplanes, k).layer>>
         \o Stages(c, StageOf(c, inplanes, k).inplanes, k + 1)

\* the names of layer0_modules, with 'pool'
Layer0Names(input_3x3) ==
    (IF input_3x3
     THEN <<"conv1", "bn1", "relu1", "conv2", "bn2", "relu2", "conv3", "bn3", "relu3">>
     ELSE <<"conv1", "bn1", "relu1">>)
    \o <<"pool">>

\* the parameters and buffers a module registers
ParamsOf(m) ==
    CASE m.kind = "Conv2d" -> IF m.bias THEN {"weight", "bias"} ELSE {"weight"}
      [] m.kind = "BatchNorm2d" ->
            {"weight", "bias", "running_mean", "running_var", "num_batches_tracked"}
      [] OTHER -> {}

\* the entries of one block, without the prefix of the block
BlockEntries(b) ==
    UNION { {<<mn, "", q>> : q \in ParamsOf(b[mn])}
            : mn \in {"conv1", "bn1", "conv2", "bn2", "conv3", "bn3"} }
    \cup { <<"se_module", br, q>> :
            br \in Range(b.se_module.branches), q \in ParamsOf(b.se_module.fc_in) }
    \cup { <<"se_module", "fc2", q>> : q \in ParamsOf(b.se_module.fc2) }
    \cup UNION { {<<"downsample", <<"0", "1">>[d], q>> : q \in ParamsOf(b.downsample[d])}
                 : d \in 1..Len(b.downsample) }

\* the entries of layer0..layer4: <<stage, block, module, sub-module, parameter>>
BodyEntries(c) ==
    LET stem == Layer0Modules(c.input_3x3, c.inplanes)
        names == Layer0Names(c.input_3x3)
        stages == Stages(c, c.inplanes, 1)
    IN  UNION { {<<0, -1, names[m], "", q>> : q \in ParamsOf(stem[m])}
                : m \in 1..Len(stem) }
        \cup UNION { UNION { {<<k, j - 1>> \o e : e \in BlockEntries(stages[k][j])}
                             : j \in 1..Len(stages[k]) }
                     : k \in 1..4 }

\* the keys of model.state_dict(): layer0..layer4 under their own names,
\* again under `feature` when the model registers that container, and the
\* classifier of the donor
StateDictKeys(c) ==
    {<<"layer">> \o e : e \in BodyEntries(c)}
    \cup (IF "feature" \in Range(TailModules(c.cls))
          THEN {<<"feature">> \o e : e \in BodyEntries(c)} ELSE {})
    \cup (IF "last_linear" \in Range(TailModules(c.cls))
          THEN {<<"last_linear", 5, -1, "", "", q>> : q \in {"weight", "bias"}}
          ELSE {})

TargetKeys(fn) == StateDictKeys(FactoryCfg("DCCANet", ModelLayers(fn)))
DonorKeys(donor) == StateDictKeys(FactoryCfg("AttentionResNet", DonorLayers(donor)))

\* mutant: `feature` holds copies of layer0..layer4 instead of the modules
CellOfCopied(owner, k) ==
    <<IF k[1] = "feature" THEN "feature" ELSE owner>> \o Tail(k)

\* the storage cell of the parameter a key names: the modules registered
\* twice (layer{i} and feature.{i}) are the same objects
CellOf(owner, k) == <<owner>> \o Tail(k)

\* a freshly constructed parameter / a tensor read from the checkpoint file
InitValue(origin, cell) == <<origin>> \o Tail(cell)

\* module.state_dict(): key -> the parameter's own storage
StateDict(owner, keys) == [k \in keys |-> CellOf(owner, k)]

\* the top-level children in registration order, as <<prefix, stage>>
ChildrenSeq(cls) ==
    << <<"layer", 0>>, <<"layer", 1>>, <<"layer", 2>>, <<"layer", 3>>, <<"layer", 4>> >>
    \o [n \in 1..Len(TailModules(cls)) |-> <<TailModules(cls)[n], -1>>]

KeysUnder(child, keys) ==
    {k \in keys : k[1] = child[1] /\ (child[1] = "layer" => k[2] = child[2])}

\* load(child, prefix): copy into every parameter under the child the
\* current content of the tensor the dictionary holds for its key
LoadChildOp(st, owner, child, dict, keys) ==
    LET ks == {k \in KeysUnder(child, keys) : k \in DOMAIN dict}
        cells == {CellOf(owner, k) : k \in ks}
    IN  [c \in DOMAIN st |->
            IF c \in cells THEN st[dict[<<child[1]>> \o Tail(c)]] ELSE st[c]]

\* mutant: the donor's keys are not filtered
FilterDictNone(pd, md) == pd

\* {k: v for k, v in pretrained_dict.items() if k in model_dict}
FilterDict(pd, md) ==
    [k \in {x \in DOMAIN pd : x \in DOMAIN md} |-> pd[k]]

\* model_dict.update(pretrained_dict)
UpdateDict(md, pd) ==
    [k \in DOMAIN md \cup DOMAIN pd |-> IF k \in DOMAIN pd THEN pd[k] ELSE md[k]]

\* d[k] = v
Put(d, k, v) == [x \in DOMAIN d \cup {k} |-> IF x = k THEN v ELSE d[x]]

\* 'layer{}.{}.se_module.<branch>.<param>'.format(i, j)
FormatKey(i, j, branch, param) == <<"layer", i, j, "se_module", branch, param>>

(***************************************************************************)
(* The factories.  attention_resnet50/101 build the donor and, when        *)
(* `pretrained` is given, run initialize_pretrained_model on it;           *)
(* dcca_resnet50/101 build the target, call the donor factory and          *)
(* transplant the donor's parameters.                                      *)
(***************************************************************************)
NumClassesSet == {1000, 10}

\* pretrained_settings[donor]['imagenet'] (MEAN and STD in thousandths)
Settings(donor) ==
    [RESTORE_FROM |-> IF donor = "attention_resnet50"
                      THEN "pretrained_models/attention_resnet50_pretrained_imagenet.pth"
                      ELSE "pretrained_models/attention_resnet101_pretrained_imagenet.pth",
     INPUT_SPACE |-> <<"RGB">>,
     INPUT_SIZE |-> <<3, 224, 224>>,
     INPUT_RANGE |-> <<0, 1>>,
     MEAN |-> <<485, 456, 406>>,
     STD |-> <<229, 224, 225>>,
     NUM_CLASSES |-> 1000]

\* the attributes initialize_pretrained_model sets, in order, and the
\* setting each takes
AttrNames == <<"input_space", "input_size", "input_range", "mean", "std">>
AttrSetting == <<"INPUT_SPACE", "INPUT_SIZE", "INPUT_RANGE", "MEAN", "STD">>

Unset == <<>>

\* torch.load(settings['RESTORE_FROM']): the checkpoint holds one tensor per
\* key of the architecture it was saved from
Checkpoint(donor) == StateDict("file", DonorKeys(donor))

Entries ==
    { e \in [fn : {"dcca_resnet50", "dcca_resnet101",
                   "attention_resnet50", "attention_resnet101"},
             num_classes : NumClassesSet,
             pretrained : {"imagenet", "None"}] :
        \* dcca_resnet* call the donor factory with num_classes=1000
        IsTransplant(e.fn) => e.num_classes = 1000 }

InitTr ==
    /\ entry \in Entries
    /\ store = <<>>
    /\ attrs = [a \in Range(AttrNames) |-> Unset]
    /\ pretrained_dict = <<>>
    /\ model_dict = <<>>
    /\ loop_i = 0
    /\ loop_j = 0
    /\ load_pos = 0
    /\ report = [missing |-> {}, unexpected |-> {}]
    /\ pc_tr = IF IsTransplant(entry.fn) THEN "model" ELSE "donor"

\* new storage for the parameters of a constructed model
Allocate(st, owner, keys, origin) ==
    [c \in {CellOf(owner, k) : k \in keys} |-> InitValue(origin, c)] @@ st

\* model = DCCANet(DCCAResNetBottleneck, [...], ...)
TrModel ==
    /\ pc_tr = "model"
    /\ store' = Allocate(store, "model", TargetKeys(entry.fn), "model_init")
    /\ pc_tr' = "donor"
    /\ UNCHANGED <<entry, attrs, pretrained_dict, model_dict, loop_i, loop_j,
                   load_pos, report>>

\* attention_resnet50/101: model = AttentionResNet(...); if pretrained is
\* not None: initialize_pretrained_model(model, num_classes, settings)
TrDonor ==
    /\ pc_tr = "donor"
    /\ store' = Allocate(store, "donor", DonorKeys(DonorOf(entry.fn)), "donor_init")
    /\ pc_tr' = IF entry.pretrained # "None" THEN "assert" ELSE "donor_return"
    /\ UNCHANGED <<entry, attrs, pretrained_dict, model_dict, loop_i, loop_j,
                   load_pos, report>>

\* mutant: the class count is not checked
InitAssertSkipped ==
    /\ pc_tr = "assert"
    /\ pc_tr' = "torch_load"
    /\ UNCHANGED <<entry, store, attrs, pretrained_dict, model_dict, loop_i, loop_j,
                   load_pos, report>>

\* assert num_classes == settings['NUM_CLASSES']
InitAssert ==
    /\ pc_tr = "assert"
    /\ pc_tr' = IF entry.num_classes = Settings(DonorOf(entry.fn)).NUM_CLASSES
                THEN "torch_load" ELSE "AssertionError"
    /\ UNCHANGED <<entry, store, attrs, pretrained_dict, model_dict, loop_i, loop_j,
                   load_pos, report>>

\* torch.load(settings['RESTORE_FROM']), the argument of load_state_dict
InitTorchLoad ==
    /\ pc_tr = "torch_load"
    /\ store' = Allocate(store, "file", DonorKeys(DonorOf(entry.fn)),
                         Settings(DonorOf(entry.fn)).RESTORE_FROM)
    /\ load_pos' = 1
    /\ pc_tr' = "donor_load"
    /\ UNCHANGED <<entry, attrs, pretrained_dict, model_dict, loop_i, loop_j, report>>

\* load_state_dict: the next child module, in registration order
LoadChild(here, owner, cls, dict, keys) ==
    /\ pc_tr = here
    /\ load_pos <= Len(ChildrenSeq(cls))
    /\ store' = LoadChildOp(store, owner, ChildrenSeq(cls)[load_pos], dict, keys)
    /\ load_pos' = load_pos + 1
    /\ UNCHANGED <<entry, attrs, pretrained_dict, model_dict, loop_i, loop_j, report,
                   pc_tr>>

\* load_state_dict (strict): after the copies, missing or unexpected keys
\* raise
LoadFinish(here, cls, dict, keys, next) ==
    /\ pc_tr = here
    /\ load_pos > Len(ChildrenSeq(cls))
    /\ report' = [missing |-> keys \ DOMAIN dict, unexpected |-> DOMAIN dict \ keys]
    /\ pc_tr' = IF keys = DOMAIN dict THEN next ELSE "RuntimeError"
    /\ load_pos' = 0
    /\ UNCHANGED <<entry, store, attrs, pretrained_dict, model_dict, loop_i, loop_j>>

\* model.input_space = settings['INPUT_SPACE'] ... model.std = settings['STD']
InitSetAttr(n) ==
    /\ pc_tr = AttrNames[n]
    /\ attrs' = [attrs EXCEPT ![AttrNames[n]] = Settings(DonorOf(entry.fn))[AttrSetting[n]]]
    /\ pc_tr' = IF n < Len(AttrNames) THEN AttrNames[n + 1] ELSE "donor_return"
    /\ UNCHANGED <<entry, store, pretrained_dict, model_dict, loop_i, loop_j,
                   load_pos, report>>

\* return model, and in dcca_resnet*: pretrained_dict = (...).state_dict()
TrDonorReturn ==
    /\ pc_tr = "donor_return"
    /\ IF IsTransplant(entry.fn)
       THEN /\ pretrained_dict' = StateDict("donor", DonorKeys(DonorOf(entry.fn)))
            /\ pc_tr' = "model_dict"
       ELSE /\ pc_tr' = "done"
            /\ UNCHANGED pretrained_dict
    /\ UNCHANGED <<entry, store, attrs, model_dict, loop_i, loop_j, load_pos, report>>

\* model_dict = model.state_dict()
TrModelDict ==
    /\ pc_tr = "model_dict"
    /\ model_dict' = StateDict("model", TargetKeys(entry.fn))
    /\ pc_tr' = "filter"
    /\ UNCHANGED <<entry, store, attrs, pretrained_dict, loop_i, loop_j, load_pos,
                   report>>

\* pretrained_dict = {k: v for k, v in pretrained_dict.items() if k in model_dict}
TrFilter ==
    /\ pc_tr = "filter"
    /\ pretrained_dict' = FilterDict(pretrained_dict, model_dict)
    /\ pc_tr' = "update"
    /\ UNCHANGED <<entry, store, attrs, model_dict, loop_i, loop_j, load_pos, report>>

\* layer = [...]; model_dict.update(pretrained_dict); for i in range(1, 5):
TrUpdate ==
    /\ pc_tr = "update"
    /\ model_dict' = UpdateDict(model_dict, pretrained_dict)
    /\ loop_i' = 1
    /\ loop_j' = 0
    /\ pc_tr' = "loop"
    /\ UNCHANGED <<entry, store, attrs, pretrained_dict, load_pos, report>>

\* mutant: the bias is copied, the weight is not
LoopBodyBiasOnly(md, pd, i, j) ==
    Put(md, FormatKey(i, j, "fc0", "bias"), pd[FormatKey(i, j, "fc1", "bias")])

\* model_dict[a1] = pretrained_dict[b1]; model_dict[a2] = pretrained_dict[b2]
LoopBody(md, pd, i, j) ==
    Put(Put(md, FormatKey(i, j, "fc0", "weight"), pd[FormatKey(i, j, "fc1", "weight")]),
        FormatKey(i, j, "fc0", "bias"), pd[FormatKey(i, j, "fc1", "bias")])

\* for i in range(1, 5): for j in range(layer[i - 1]): one step of the two
\* loops; a key pretrained_dict lacks raises KeyError
TrLoop ==
    /\ pc_tr = "loop"
    /\ IF loop_i > 4
       THEN /\ pc_tr' = "load_state_dict"
            /\ load_pos' = 1
            /\ UNCHANGED <<model_dict, loop_i, loop_j>>
       ELSE IF loop_j >= LoopLayers(entry.fn)[loop_i]
       THEN /\ loop_i' = loop_i + 1
            /\ loop_j' = 0
            /\ UNCHANGED <<model_dict, load_pos, pc_tr>>
       ELSE IF {FormatKey(loop_i, loop_j, "fc1", q) : q \in {"weight", "bias"}}
                 \subseteq DOMAIN pretrained_dict
       THEN /\ model_dict' = LoopBody(model_dict, pretrained_dict, loop_i, loop_j)
            /\ loop_j' = loop_j + 1
            /\ UNCHANGED <<loop_i, load_pos, pc_tr>>
       ELSE /\ pc_tr' = "KeyError"
            /\ UNCHANGED <<model_dict, loop_i, loop_j, load_pos>>
    /\ UNCHANGED <<entry, store, attrs, pretrained_dict, report>>

NextTr ==
    \/ TrModel /\ UNCHANGED <<netVars, fwdVars, modVars, attVars>>
    \/ TrDonor /\ UNCHANGED <<netVars, fwdVars, modVars, attVars>>
    \/ InitAssert /\ UNCHANGED <<netVars, fwdVars, modVars, attVars>>
    \/ InitTorchLoad /\ UNCHANGED <<netVars, fwdVars, modVars, attVars>>
    \/ LoadChild("donor_load", "donor", "AttentionResNet", Checkpoint(DonorOf(entry.fn)),
                 DonorKeys(DonorOf(entry.fn)))
          /\ UNCHANGED <<netVars, fwdVars, modVars, attVars>>
    \/ LoadFinish("donor_load", "AttentionResNet", Checkpoint(DonorOf(entry.fn)),
                  DonorKeys(DonorOf(entry.fn)), AttrNames[1])
          /\ UNCHANGED <<netVars, fwdVars, modVars, attVars>>
    \/ \E n \in 1..Len(AttrNames) : InitSetAttr(n) /\ UNCHANGED <<netVars, fwdVars, modVars, attVars>>
    \/ TrDonorReturn /\ UNCHANGED <<netVars, fwdVars, modVars, attVars>>
    \/ TrModelDict /\ UNCHANGED <<netVars, fwdVars, modVars, attVars>>
    \/ TrFilter /\ UNCHANGED <<netVars, fwdVars, modVars, attVars>>
    \/ TrUpdate /\ UNCHANGED <<netVars, fwdVars, modVars, attVars>>
    \/ TrLoop /\ UNCHANGED <<netVars, fwdVars, modVars, attVars>>
    \/ LoadChild("load_state_dict", "model", "DCCANet", model_dict, TargetKeys(entry.fn))
          /\ UNCHANGED <<netVars, fwdVars, modVars, attVars>>
    \/ LoadFinish("load_state_dict", "DCCANet", model_dict, TargetKeys(entry.fn), "done")
          /\ UNCHANGED <<netVars, fwdVars, modVars, attVars>>

(***************************************************************************)
(* Properties of DCCAModule.forward (SpecModule).                          *)
(***************************************************************************)
\* the parameter value the branch convolution applied to row r
BranchParam(r) == r.ops[2][2]

BranchDone == pc_mod \in {"relu", "fc2", "sigmoid", "return", "done"}

\* C2: in training mode the samples with (0-based) index < floor(N/2) are
\* gated through fc0 and the others through fc1, each through exactly one
\* branch, and the result has the N rows in the original sample order; in
\* inference mode every sample goes through fc1 and fc0 is never used.
C2_BatchSplit ==
    LET N == Len(module_input)
    IN  /\ BranchDone =>
            /\ Len(xs) = N
            /\ Len(used) = N
            /\ \A i \in 1..N :
                /\ xs[i].s = module_input[i]
                /\ xs[i].ops[1] = <<"avg_pool", 0>>
                /\ xs[i].ops[2][1] = "conv"
                /\ Cardinality({k \in 1..Len(xs[i].ops) : xs[i].ops[k][1] = "conv"})
                      = IF pc_mod \in {"relu", "fc2"} THEN 1 ELSE 2
                /\ used[i] = IF training /\ 2 * i <= N THEN "fc0" ELSE "fc1"
                /\ BranchParam(xs[i]) = params[used[i]]
        /\ ~training => src = <<>> /\ trg = <<>>
        /\ pc_mod = "done" =>
            /\ Len(result) = N
            /\ \A i \in 1..N : /\ result[i].input = module_input[i]
                               /\ result[i].gate.s = module_input[i]
        /\ pc_mod # "RuntimeError"

\* a training batch of odd size, split 1 / 2, has been gated and returned
C2_Witness ==
    /\ pc_mod = "done"
    /\ training
    /\ Len(module_input) = 3
    /\ module_input[1] # module_input[2]
    /\ params.fc0 # params.fc1
    /\ used = <<"fc0", "fc1", "fc1">>

\* C11: when fc0 and fc1 hold identical parameters (as right after the
\* transplant), DCCAModule.forward returns, in training mode and in
\* inference mode alike and for every batch size including 0, 1 and odd
\* sizes, what the donor's AttentionModule.forward returns for the same
\* batch and parameters; hence the two modes agree.
C11_SameAsDonor ==
    params.fc0 = params.fc1 =>
        /\ pc_mod # "RuntimeError"
        /\ (pc_mod = "done" /\ pc_att = "done") =>
              /\ result = donor_result
              /\ Len(result) = Len(module_input)

\* a training batch of three samples, split 1 / 2 between identical
\* branches, has been returned and so has the donor's result
C11_Witness ==
    /\ pc_mod = "done"
    /\ pc_att = "done"
    /\ training
    /\ params.fc0 = params.fc1
    /\ Len(module_input) = 3
    /\ module_input[1] # module_input[3]
    /\ used = <<"fc0", "fc1", "fc1">>
    /\ result = donor_result

(***************************************************************************)
(* Properties of the assembled network (SpecNet).                          *)
(***************************************************************************)
\* C5 as stated: every stage holds exactly layers[k] blocks, a count of 0
\* included, and only the first block has the stage stride and the shortcut
\* projection.
C5_AsStated ==
    \A k \in 1..Len(net) :
        /\ Len(net[k]) = cfg.layers[k]
        /\ \A j \in 2..Len(net[k]) :
              net[k][j].stride = 1 /\ net[k][j].downsample = None

\* C5 amended: a stage holds layers[k] blocks when layers[k] >= 1 and one
\* block when layers[k] < 1; the first block is built with the stage stride
\* and the stage's shortcut projection, every later block with stride 1 and
\* no shortcut projection.
C5_BlockCount ==
    \A k \in 1..Len(net) :
        /\ Len(net[k]) = IF cfg.layers[k] >= 1 THEN cfg.layers[k] ELSE 1
        /\ net[k][1].stride = StageStride[k]
        /\ net[k][1].conv1.stride = StageStride[k]
        /\ StageStride[k] # 1 => net[k][1].downsample # None
        /\ \A j \in 2..Len(net[k]) :
              /\ net[k][j].stride = 1
              /\ net[k][j].conv1.stride = 1
              /\ net[k][j].downsample = None

\* a finished network with a stage asked for 0 blocks and one asked for 2
C5_Witness ==
    /\ pc_net = "built"
    /\ cfg.layers[1] = 0 /\ Len(net[1]) = 1
    /\ cfg.layers[3] = 2 /\ Len(net[3]) = 2
    /\ net[3][1].downsample # None

\* C7: the block's stride is applied in conv1 and conv2 always has stride 1,
\* so in every stage only conv1 of the first block and that block's
\* shortcut projection down-sample, both with the same stride.
C7_StrideInConv1 ==
    \A k \in 1..Len(net) : \A j \in 1..Len(net[k]) :
        LET b == net[k][j]
        IN  /\ b.conv1.stride = b.stride
            /\ b.conv2.stride = 1
            /\ b.conv3.stride = 1
            /\ b.downsample # None => b.downsample[1].stride = b.conv1.stride
            /\ b.downsample = None => b.conv1.stride = 1
            /\ j > 1 => b.conv1.stride = 1 /\ b.downsample = None
            /\ j = 1 => b.conv1.stride = StageStride[k]

\* a finished network of either class whose stage 2 down-samples in its
\* first block and has a second block
C7_Witness ==
    /\ pc_net = "built"
    /\ Len(net[2]) = 2
    /\ net[2][1].conv1.stride = 2
    /\ net[2][1].downsample[1].stride = 2
    /\ net[2][1].downsample[1].kernel_size = 3

\* the channel count leaving the stem: that of its last normalisation
StemOut ==
    LET shaped == {i \in 1..Len(layer0) : layer0[i].kind \in {"Conv2d", "BatchNorm2d"}}
        last == CHOOSE i \in shaped : \A m \in shaped : m <= i
    IN  layer0[last].cout

\* the channel count entering block j of stage k
PrevOut(k, j) ==
    IF j > 1 THEN net[k][j - 1].bn3.cout
    ELSE IF k > 1 THEN net[k - 1][Len(net[k - 1])].bn3.cout
    ELSE StemOut

\* the channel count of the shortcut operand of block b fed c channels
ShortcutOut(b, c) ==
    IF b.downsample = None THEN c ELSE b.downsample[2].cout

\* C9: every block's input channel count equals the output channel count of
\* what precedes it, a block has an identity shortcut only when its stride
\* is 1 and its input channel count is planes * expansion, and the residual
\* addition adds two tensors of the same channel count.
C9_ChannelConsistent ==
    pc_net # "layer0" =>
    \A k \in 1..Len(net) : \A j \in 1..Len(net[k]) :
        LET b == net[k][j]
            c == PrevOut(k, j)
        IN  /\ b.conv1.cin = c
            /\ b.bn1.cin = b.conv1.cout
            /\ b.conv2.cin = b.bn1.cout
            /\ b.bn2.cin = b.conv2.cout
            /\ b.conv3.cin = b.bn2.cout
            /\ b.bn3.cin = b.conv3.cout
            /\ b.se_module.fc_in.cin = b.bn3.cout
            /\ b.se_module.fc2.cin = b.se_module.fc_in.cout
            /\ b.se_module.fc2.cout = b.bn3.cout
            /\ b.downsample = None =>
                  b.stride = 1 /\ c = StagePlanes[k] * expansion
            /\ b.downsample # None =>
                  /\ b.downsample[1].cin = c
                  /\ b.downsample[2].cin = b.downsample[1].cout
            /\ ShortcutOut(b, c) = b.bn3.cout

\* a finished network whose first block of stage 1 has an identity shortcut
\* and whose stage 2 has a projection followed by a second block
C9_Witness ==
    /\ pc_net = "built"
    /\ net[1][1].downsample = None
    /\ Len(net[1]) = 2
    /\ net[2][1].downsample # None
    /\ Len(net[2]) = 2

(***************************************************************************)
(* Properties of Bottleneck.forward (SpecForward).                         *)
(***************************************************************************)
\* C6: the steps run in the order conv1, bn1, relu, conv2, bn2, relu, conv3,
\* bn3, attention gate, add shortcut, relu; the gate is applied to the main
\* path only, the shortcut is computed from the block's original input
\* (downsample(x) if there is a projection, x otherwise) and the last
\* activation follows the addition.
C6_ForwardOrder ==
    /\ pc_fwd # "RuntimeError"
    /\ pc_fwd \notin {"idle", "residual"} => residual_ref # 0
    /\ pc_fwd \notin {"idle"} => tensors[x_ref].main = <<"x">>
                                 /\ ~tensors[x_ref].added
    /\ pc_fwd = "se_add" =>
          tensors[out_ref].main = <<"x", "conv1", "bn1", "relu", "conv2", "bn2",
                                    "relu", "conv3", "bn3">>
    /\ pc_fwd \in {"return", "done"} =>
          /\ tensors[out_ref].main = <<"x", "conv1", "bn1", "relu", "conv2", "bn2",
                                       "relu", "conv3", "bn3", "se_module">>
          /\ tensors[out_ref].added
          /\ tensors[out_ref].shortcut =
                IF blk.downsample # None THEN <<"x", "downsample">> ELSE <<"x">>
          /\ tensors[out_ref].post = <<"relu">>

\* a block with a shortcut projection has returned
C6_Witness ==
    /\ pc_fwd = "done"
    /\ blk.downsample # None
    /\ tensors[out_ref].shortcut = <<"x", "downsample">>
    /\ tensors[out_ref].post = <<"relu">>

(***************************************************************************)
(* Properties of the factories and the transplant (SpecTransplant).        *)
(***************************************************************************)
\* the block counts of the four stages, as the claims state them
BlockCounts(fn) ==
    IF fn = "dcca_resnet50" THEN <<3, 4, 6, 3>> ELSE <<3, 4, 23, 3>>

\* the attention slots (i, j) of the transplant's target
Slots(fn) ==
    UNION { {<<i, j>> : j \in 0..(BlockCounts(fn)[i] - 1)} : i \in 1..4 }

\* the value the donor's parameter holds when the donor factory returns
DonorValue(k) ==
    <<IF entry.pretrained = "None" THEN "donor_init"
      ELSE Settings(DonorOf(entry.fn)).RESTORE_FROM>> \o Tail(k)

Returned == pc_tr = "done" /\ IsTransplant(entry.fn)

\* C1: after dcca_resnet50/101 returns, for every stage i and block j both
\* attention slots fc0 and fc1 (weight and bias) of the new model hold the
\* donor's fc1 parameters, and no (i, j) is missing from the filtered donor
\* dictionary.
C1_BothSlotsHoldDonorFc1 ==
    /\ pc_tr # "KeyError"
    /\ Returned =>
        \A s \in Slots(entry.fn) : \A q \in {"weight", "bias"} :
            LET donor_fc1 == <<"donor", s[1], s[2], "se_module", "fc1", q>>
            IN  /\ <<"layer", s[1], s[2], "se_module", "fc1", q>> \in DOMAIN pretrained_dict
                /\ store[donor_fc1] = DonorValue(donor_fc1)
                /\ store[<<"model", s[1], s[2], "se_module", "fc0", q>>] = store[donor_fc1]
                /\ store[<<"model", s[1], s[2], "se_module", "fc1", q>>] = store[donor_fc1]

\* dcca_resnet101 has returned with the checkpoint's fc1 in fc0 of the last
\* block of stage 3
C1_Witness ==
    /\ Returned
    /\ entry.fn = "dcca_resnet101"
    /\ store[<<"model", 3, 22, "se_module", "fc0", "weight">>]
          = <<"pretrained_models/attention_resnet101_pretrained_imagenet.pth",
              3, 22, "se_module", "fc1", "weight">>

AfterUpdate == pc_tr \in {"loop", "load_state_dict", "done", "KeyError", "RuntimeError"}

\* C3: the donor dictionary is filtered to the target's keys, so the
\* dictionary given to load_state_dict has exactly the target's key set: no
\* donor-only key (last_linear) is added, no target key is removed, and the
\* strict load reports neither missing nor unexpected keys.
C3_SameKeySet ==
    IsTransplant(entry.fn) =>
        /\ (pc_tr = "update" \/ AfterUpdate) =>
              DOMAIN pretrained_dict \subseteq TargetKeys(entry.fn)
        /\ AfterUpdate =>
              /\ DOMAIN model_dict = TargetKeys(entry.fn)
              /\ \A k \in DOMAIN model_dict : k[1] # "last_linear"
        /\ pc_tr # "RuntimeError"
        /\ report = [missing |-> {}, unexpected |-> {}]

\* the transplant has returned although the donor has a classifier the
\* target lacks
C3_Witness ==
    /\ Returned
    /\ <<"last_linear", 5, -1, "", "", "weight">> \in DonorKeys(DonorOf(entry.fn))
    /\ <<"last_linear", 5, -1, "", "", "weight">> \notin DOMAIN model_dict
    /\ load_pos = 0

\* the donor's keys of attention modules, without the second convolution
DonorBranchKeys(fn) ==
    {d \in DonorKeys(DonorOf(fn)) : d[1] = "layer" /\ d[4] = "se_module" /\ d[5] # "fc2"}

\* the gating branches of the attention module of block (i, j), given the
\* branch keys
Branches(keys, i, j) == {k[5] : k \in {d \in keys : d[2] = i /\ d[3] = j}}

LoopDone == pc_tr \in {"load_state_dict", "done"} /\ IsTransplant(entry.fn)

\* C4 as stated: the donor attention layer read has two branches, the two
\* target slots receive different parts of the donor's parameters, and both
\* target slot names differ from the donor's slot name.
C4_AsStated ==
    LoopDone =>
        LET dk == DonorBranchKeys(entry.fn)
        IN  \A s \in Slots(entry.fn) : \A q \in {"weight", "bias"} :
            /\ Cardinality(Branches(dk, s[1], s[2])) = 2
            /\ model_dict[FormatKey(s[1], s[2], "fc0", q)]
                  # model_dict[FormatKey(s[1], s[2], "fc1", q)]
            /\ {"fc0", "fc1"} \cap Branches(dk, s[1], s[2]) = {}

\* C4 amended: the donor attention layer has the single branch fc1; the
\* transplant puts that branch's weight and bias into both slots fc0 and
\* fc1 of the new model (the same donor tensors), so fc1 keeps the donor's
\* slot name and only fc0 is a new name.
C4_DuplicatesOneBranch ==
    LoopDone =>
        LET dk == DonorBranchKeys(entry.fn)
        IN  \A s \in Slots(entry.fn) : \A q \in {"weight", "bias"} :
            /\ Branches(dk, s[1], s[2]) = {"fc1"}
            /\ model_dict[FormatKey(s[1], s[2], "fc0", q)]
                  = <<"donor", s[1], s[2], "se_module", "fc1", q>>
            /\ model_dict[FormatKey(s[1], s[2], "fc1", q)]
                  = <<"donor", s[1], s[2], "se_module", "fc1", q>>

\* the loop of dcca_resnet50 has put the donor's fc1 into both slots of the
\* last block
C4_Witness ==
    /\ LoopDone
    /\ entry.fn = "dcca_resnet50"
    /\ model_dict[FormatKey(4, 2, "fc0", "bias")] = model_dict[FormatKey(4, 2, "fc1", "bias")]
    /\ model_dict[FormatKey(4, 2, "fc0", "bias")][1] = "donor"

AttrsSet(n) == \A m \in 1..n : attrs[AttrNames[m]] = Settings(DonorOf(entry.fn))[AttrSetting[m]]
AttrsUnset(n) == \A m \in n..Len(AttrNames) : attrs[AttrNames[m]] = Unset

DonorCells == {c \in DOMAIN store : c[1] = "donor"}
DonorLoaded ==
    /\ DonorCells # {}
    /\ \A c \in DonorCells :
          store[c] = <<Settings(DonorOf(entry.fn)).RESTORE_FROM>> \o Tail(c)
DonorUntouched == \A c \in DonorCells : store[c] = <<"donor_init">> \o Tail(c)

Mismatch ==
    /\ entry.pretrained # "None"
    /\ entry.num_classes # 1000

\* C8: initialize_pretrained_model called with num_classes different from
\* settings['NUM_CLASSES'] fails with an assertion error before any weight
\* is loaded and before any of the five attributes is set, leaving the
\* model unchanged; when they are equal it loads the weights from
\* settings['RESTORE_FROM'] and then sets all five attributes.
C8_AssertFirst ==
    /\ pc_tr = "AssertionError" => Mismatch
    /\ Mismatch =>
          /\ pc_tr \in {"donor", "assert", "AssertionError"}
          /\ AttrsUnset(1)
          /\ DonorUntouched
          /\ \A c \in DOMAIN store : c[1] # "file"
    /\ \A n \in 1..Len(AttrNames) :
          attrs[AttrNames[n]] # Unset => DonorLoaded /\ AttrsSet(n)
    /\ pc_tr \in Range(AttrNames) => DonorLoaded
    /\ (/\ entry.pretrained # "None"
        /\ entry.num_classes = 1000
        /\ pc_tr \notin {"model", "donor", "assert", "torch_load", "donor_load"}
                        \cup Range(AttrNames))
          => DonorLoaded /\ AttrsSet(Len(AttrNames))

\* attention_resnet50(num_classes=10) has failed its assertion
C8_Witness ==
    /\ pc_tr = "AssertionError"
    /\ entry.fn = "attention_resnet50"
    /\ entry.num_classes = 10
    /\ DonorCells # {}

FeatureKeys == {k \in TargetKeys(entry.fn) : k[1] = "feature"}

\* the donor key whose value the parameter of target key k must end with
DonorSource(k) ==
    <<"donor">> \o Tail(IF k[5] = "fc0" THEN [k EXCEPT ![5] = "fc1"] ELSE k)

\* C10: the target's state dictionary has feature.* keys the donor lacks,
\* which the transplant never overwrites from the donor and which are
\* loaded after the layer* keys; still, after dcca_resnet50/101 returns
\* every parameter DCCANet.forward reads through `feature` holds the
\* donor's value (fc0: the donor's fc1 value), none its initial value.
C10_FeatureHoldsDonor ==
    IsTransplant(entry.fn) =>
        /\ FeatureKeys # {}
        /\ FeatureKeys \cap DonorKeys(DonorOf(entry.fn)) = {}
        /\ \A n, m \in 1..Len(ChildrenSeq("DCCANet")) :
              (ChildrenSeq("DCCANet")[n][1] = "feature"
                  /\ ChildrenSeq("DCCANet")[m][1] = "layer") => m < n
        /\ pc_tr \in {"filter", "update", "loop", "load_state_dict", "done"} =>
              \A k \in FeatureKeys : model_dict[k][1] # "donor"
        /\ Returned =>
              \A k \in FeatureKeys :
                  /\ store[CellOf("model", k)] = store[DonorSource(k)]
                  /\ store[CellOf("model", k)] = DonorValue(DonorSource(k))
                  /\ store[CellOf("model", k)][1] # "model_init"

\* dcca_resnet50 has returned and feature.1.0.se_module.fc0.weight holds
\* the checkpoint's fc1 weight
C10_Witness ==
    /\ Returned
    /\ entry.fn = "dcca_resnet50"
    /\ model_dict[<<"feature", 1, 0, "se_module", "fc0", "weight">>][1] = "model"
    /\ store[CellOf("model", <<"feature", 1, 0, "se_module", "fc0", "weight">>)]
          = <<"pretrained_models/attention_resnet50_pretrained_imagenet.pth",
              1, 0, "se_module", "fc1", "weight">>

(***************************************************************************)
(* Specifications: each runs one of the procedures; the variables of the   *)
(* others stay idle.                                                       *)
(***************************************************************************)
IdleNet ==
    /\ cfg = None
    /\ self_inplanes = 0
    /\ net = <<>>
    /\ layer0 = <<>>
    /\ extras = <<>>
    /\ pc_net = "idle"

IdleFwd ==
    /\ blk = None
    /\ tensors = <<>>
    /\ x_ref = 0 /\ out_ref = 0 /\ residual_ref = 0
    /\ pc_fwd = "idle"

IdleTr ==
    /\ entry = None
    /\ store = <<>>
    /\ attrs = <<>>
    /\ pretrained_dict = <<>>
    /\ model_dict = <<>>
    /\ loop_i = 0 /\ loop_j = 0
    /\ load_pos = 0
    /\ report = <<>>
    /\ pc_tr = "idle"

IdleAtt ==
    /\ donor_result = <<>>
    /\ pc_att = "idle"

IdleMod ==
    /\ training = FALSE
    /\ params = <<>>
    /\ module_input = <<>>
    /\ xs = <<>>
    /\ src = <<>>
    /\ trg = <<>>
    /\ used = <<>>
    /\ result = <<>>
    /\ pc_mod = "idle"

StartNet == InitNet /\ IdleFwd /\ IdleMod /\ IdleTr /\ IdleAtt

SpecNet == StartNet /\ [][NextNet]_vars

StartForward == IdleNet /\ InitFwd /\ IdleMod /\ IdleTr /\ IdleAtt

SpecForward == StartForward /\ [][NextFwd]_vars

StartModule == IdleNet /\ IdleFwd /\ InitMod /\ IdleTr /\ InitAtt

SpecModule == StartModule /\ [][NextMod]_vars

StartTransplant == IdleNet /\ IdleFwd /\ IdleMod /\ InitTr /\ IdleAtt

SpecTransplant == StartTransplant /\ [][NextTr]_vars

====
